---- MODULE Spec2Model ----
(***************************************************************************)
(* Loopgate: a broker for Human-in-the-Loop requests.                      *)
(*                                                                         *)
(* The model covers the polling architecture: the HTTP edge                *)
(* (handlers.HITLHandler), the Telegram bot (telegram.Bot) and the store   *)
(* both work on through session.Manager, which only delegates.  The store  *)
(* keeps its records as storage.InMemoryStorageAdapter does; an insert can *)
(* also fail the way a database insert does (store.MongoStoreRequest).  A  *)
(* store operation is one atomic step; a handler that makes two store      *)
(* calls that another goroutine can separate (the bot's callback handler)  *)
(* is two steps.                                                           *)
(***************************************************************************)
EXTENDS Integers, Sequences, FiniteSets, TLC

\* ------------------------------------------------------------ bounds
MaxRequests == 2        \* requests minted in one behaviour
MaxTimeout == 1         \* largest timeout_seconds an agent sends
Epsilon == 1            \* scheduler tolerance granted to the timeout bound
MaxTime == MaxTimeout + Epsilon + 1
MaxCalls == 2           \* RouteHITLRequest calls in one behaviour
MaxLines == 3           \* lines the client writes in one behaviour

\* ------------------------------------------------------------ values
SessionIDs == {"s1", "s2"}
ClientIDs == {"c1", "c2"}
TelegramIDs == {42}
OptionLists == {<< >>, <<"Deploy", "Cancel">>}
ReplyTexts == {"yes", "no"}
OptionIndexes == 0..2

RequestStatusPending == "pending"
RequestStatusCompleted == "completed"
RequestStatusTimeout == "timeout"
RequestStatusCanceled == "canceled"
TerminalStatuses == {RequestStatusCompleted, RequestStatusTimeout, RequestStatusCanceled}

DefaultTimeout == 300
StatusOK == 200
StatusBadRequest == 400
StatusNotFound == 404
StatusInternalServerError == 500

\* Config.MaxConcurrentRequests as the environment sets it
\* (MAX_CONCURRENT_REQUESTS=1; 100 when unset).
MaxConcurrentRequests == 1

RouteTimeout == 1       \* time.Now().Add(5 * time.Minute), in ticks of five minutes
ResponseChCap == 1      \* make(chan *types.HITLResponse, 1)
NoTime == -1            \* a nil *time.Time
NoRequest == 0          \* no request id
NoID == 0               \* a JSON-RPC message without id

VARIABLES
    sessions,           \* InMemoryStorageAdapter.sessions: session id -> Session
    clientToTelegram,   \* InMemoryStorageAdapter.clientToTelegram: client id -> chat id
    requests,           \* InMemoryStorageAdapter.requests: request id -> HITLRequest
    now,                \* time.Now()
    nextID,             \* number of request ids minted by uuid.New()
    sent,               \* prompts the Telegram API accepted: [chat, rid]
    bot,                \* the bot goroutine: idle, or inside handleCallbackQuery
    outcome,            \* what the last finished operation answered
    pendingRequests,    \* Router.pendingRequests: request id -> the call that waits
    calls,              \* the RouteHITLRequest calls: request, ResponseCh, result
    reader,             \* a PollRequest between GetRequest and its answer
    sqlite,             \* SQLiteStorageAdapter's tables and the error of its last call
    responder,          \* a HandleTelegramResponse between its lookup and its send
    mcp,                \* MCPServer over stdio: initialized, and the two pipes
    client              \* MCPClient: its mutex, its request counter, where it is

vars == <<sessions, clientToTelegram, requests, now, nextID, sent, bot, outcome,
          pendingRequests, calls, reader, sqlite, responder, mcp, client>>

Idle == [at |-> "idle"]
Panicked == [at |-> "panic"]
NoBody == [Status |-> "", Response |-> "", Approved |-> FALSE, Completed |-> FALSE]
Answer(op, rid, code, msg) ==
    [op |-> op, rid |-> rid, code |-> code, msg |-> msg, body |-> NoBody,
     pending |-> << >>, active |-> {}, chat |-> 0]

\* ------------------------------------------------------------ the store
\* Every operation returns the error it reports ("" for nil) and the maps as
\* it leaves them.  Every caller but one tests that error and answers a failed
\* read or update as it answers a missing record; SubmitRequest drops the
\* error of StoreRequest, so that operation also takes the outcome of the
\* database's insert (storeOK).

\* RegisterSession, were it to overwrite a session that exists.
RegisterSessionUpsert(ss, c2t, sessionID, clientID, telegramID, t) ==
    [err |-> "",
     sessions |-> [s \in DOMAIN ss \cup {sessionID} |->
                      IF s = sessionID
                      THEN [ClientID |-> clientID, TelegramID |-> telegramID,
                            Active |-> TRUE, CreatedAt |-> t]
                      ELSE ss[s]],
     clientToTelegram |-> [c \in DOMAIN c2t \cup {clientID} |->
                              IF c = clientID THEN telegramID ELSE c2t[c]]]

\* RegisterSession, were it to revive a deactivated session.
RegisterSessionReactivate(ss, c2t, sessionID, clientID, telegramID, t) ==
    IF sessionID \in DOMAIN ss /\ ss[sessionID].Active
    THEN [err |-> "session already exists", sessions |-> ss, clientToTelegram |-> c2t]
    ELSE RegisterSessionUpsert(ss, c2t, sessionID, clientID, telegramID, t)

RegisterSession(ss, c2t, sessionID, clientID, telegramID, t) ==
    IF sessionID \in DOMAIN ss
    THEN [err |-> "session already exists", sessions |-> ss, clientToTelegram |-> c2t]
    ELSE [err |-> "",
          sessions |-> ss @@ (sessionID :> [ClientID |-> clientID,
                                            TelegramID |-> telegramID,
                                            Active |-> TRUE,
                                            CreatedAt |-> t]),
          clientToTelegram |-> [c \in DOMAIN c2t \cup {clientID} |->
                                   IF c = clientID THEN telegramID ELSE c2t[c]]]

DeactivateSession(ss, c2t, sessionID) ==
    IF sessionID \notin DOMAIN ss
    THEN [err |-> "session not found", sessions |-> ss, clientToTelegram |-> c2t]
    ELSE [err |-> "",
          sessions |-> [ss EXCEPT ![sessionID].Active = FALSE],
          clientToTelegram |-> [c \in DOMAIN c2t \ {ss[sessionID].ClientID} |-> c2t[c]]]

GetSession(ss, sessionID) ==
    IF sessionID \notin DOMAIN ss
    THEN [err |-> "session not found"]
    ELSE [err |-> "", session |-> ss[sessionID]]

GetTelegramID(c2t, clientID) ==
    IF clientID \notin DOMAIN c2t
    THEN [err |-> "client not found", telegramID |-> 0]
    ELSE [err |-> "", telegramID |-> c2t[clientID]]

StoreRequest(rs, request, storeOK) ==
    IF ~storeOK
    THEN [err |-> "insert failed", requests |-> rs]
    ELSE IF request.ID \in DOMAIN rs
    THEN [err |-> "request already exists", requests |-> rs]
    ELSE [err |-> "", requests |-> rs @@ (request.ID :> request)]

GetRequest(rs, requestID) ==
    IF requestID \notin DOMAIN rs
    THEN [err |-> "request not found"]
    ELSE [err |-> "", request |-> rs[requestID]]

\* GetPendingRequests, were it to list every stored request.
GetPendingRequestsAll(rs) == DOMAIN rs

\* The requests GetPendingRequests appends to its result.
GetPendingRequests(rs) ==
    {id \in DOMAIN rs : rs[id].Status = RequestStatusPending}

\* The orders in which "for _, request := range s.requests" may visit them:
\* Go leaves the iteration order of a map unspecified.
RangeOrders(S) ==
    {order \in [1..Cardinality(S) -> S] :
        \A i, j \in 1..Cardinality(S) : order[i] = order[j] => i = j}

GetActiveSessions(ss) == {s \in DOMAIN ss : ss[s].Active}

UpdateRequestResponseOfAny(rs, requestID, response, approved, t) ==
    IF requestID \notin DOMAIN rs
    THEN [err |-> "request not found", requests |-> rs]
    ELSE LET pending == GetPendingRequests(rs)
             hit == IF pending = {} THEN requestID
                    ELSE CHOOSE id \in pending : \A other \in pending : id <= other
         IN  [err |-> "",
              requests |-> [rs EXCEPT ![hit] =
                               [@ EXCEPT !.Response = response,
                                         !.Approved = approved,
                                         !.Status = RequestStatusCompleted,
                                         !.RespondedAt = t]]]

UpdateRequestResponse(rs, requestID, response, approved, t) ==
    IF requestID \notin DOMAIN rs
    THEN [err |-> "request not found", requests |-> rs]
    ELSE [err |-> "",
          requests |-> [rs EXCEPT ![requestID] =
                           [@ EXCEPT !.Response = response,
                                     !.Approved = approved,
                                     !.Status = RequestStatusCompleted,
                                     !.RespondedAt = t]]]

CancelRequest(rs, requestID) ==
    IF requestID \notin DOMAIN rs
    THEN [err |-> "request not found", requests |-> rs]
    ELSE [err |-> "",
          requests |-> [rs EXCEPT ![requestID].Status = RequestStatusCanceled]]

\* ------------------------------------------------------------ the SQL store
\* SQLiteStorageAdapter (PostgreSQLStorageAdapter has the same statements) on
\* its two tables, sessions and hitl_requests, each keyed by id.

\* db.Create: an INSERT, which a row with the same primary key fails.
SQLiteStorageAdapter_RegisterSession(ss, sessionID, clientID, telegramID, t) ==
    IF sessionID \in DOMAIN ss
    THEN [err |-> "UNIQUE constraint failed", sessions |-> ss]
    ELSE [err |-> "",
          sessions |-> ss @@ (sessionID :> [ClientID |-> clientID,
                                            TelegramID |-> telegramID,
                                            Active |-> TRUE,
                                            CreatedAt |-> t])]

\* UPDATE sessions SET active = false WHERE id = ?: no row is no error.
SQLiteStorageAdapter_DeactivateSession(ss, sessionID) ==
    [err |-> "",
     sessions |-> [s \in DOMAIN ss |->
                      IF s = sessionID THEN [ss[s] EXCEPT !.Active = FALSE]
                      ELSE ss[s]]]

\* WHERE client_id = ? AND active = true ORDER BY id LIMIT 1: of the session
\* ids of the model "s1" sorts first.
SQLiteStorageAdapter_GetTelegramID(ss, clientID) ==
    LET rows == {s \in DOMAIN ss : ss[s].ClientID = clientID /\ ss[s].Active} IN
    IF rows = {}
    THEN [err |-> "active session for client not found", telegramID |-> 0]
    ELSE LET first == IF "s1" \in rows THEN "s1" ELSE CHOOSE s \in rows : TRUE
         IN  [err |-> "", telegramID |-> ss[first].TelegramID]

SQLiteStorageAdapter_StoreRequest(rs, request) ==
    IF request.ID \in DOMAIN rs
    THEN [err |-> "UNIQUE constraint failed", requests |-> rs]
    ELSE [err |-> "", requests |-> rs @@ (request.ID :> request)]

SQLiteStorageAdapter_UpdateRequestResponse(rs, requestID, response, approved, t) ==
    IF requestID \notin DOMAIN rs
    THEN [err |-> "request not found", requests |-> rs]
    ELSE [err |-> "",
          requests |-> [rs EXCEPT ![requestID] =
                           [@ EXCEPT !.Response = response,
                                     !.Approved = approved,
                                     !.Status = RequestStatusCompleted,
                                     !.RespondedAt = t]]]

\* UPDATE hitl_requests SET status = 'canceled' WHERE id = ?: no row is no error.
SQLiteStorageAdapter_CancelRequest(rs, requestID) ==
    [err |-> "",
     requests |-> [r \in DOMAIN rs |->
                      IF r = requestID
                      THEN [rs[r] EXCEPT !.Status = RequestStatusCanceled]
                      ELSE rs[r]]]

\* ------------------------------------------------------------ the chat transport

\* strings.ToLower on the texts the model uses.
ToLower(s) ==
    CASE s = "Deploy" -> "deploy"
      [] s = "Cancel" -> "cancel"
      [] s = "Yes" -> "yes"
      [] s = "No" -> "no"
      [] s = "Approve" -> "approve"
      [] s = "REJECT" -> "reject"
      [] OTHER -> s

\* Bot.SendHITLRequest: the chat is looked up by the request's client id; the
\* Telegram API accepts the message (sendOK) or fails.
Bot_SendHITLRequest(c2t, request, sendOK) ==
    LET tg == GetTelegramID(c2t, request.ClientID) IN
    IF tg.err # ""
    THEN [err |-> "failed to get telegram ID for client", chat |-> 0]
    ELSE IF ~sendOK
         THEN [err |-> "failed to send telegram message", chat |-> tg.telegramID]
         ELSE [err |-> "", chat |-> tg.telegramID]

SelectedOptionFirst(request, optionIndex) == request.Options[1]

\* request.Options[optionIndex], the option a callback selects.
SelectedOption(request, optionIndex) == request.Options[optionIndex + 1]

\* The approval a callback selection carries.
CallbackApproved(selectedOption) ==
    /\ ToLower(selectedOption) # "cancel"
    /\ ToLower(selectedOption) # "reject"
    /\ ToLower(selectedOption) # "deny"

\* ------------------------------------------------------------ the HTTP edge

\* The JSON bodies an agent posts to /hitl/request.  The body is decoded into
\* a types.HITLRequest, so it can carry every field that has a json tag.
CleanResult == [response |-> "", approved |-> FALSE, responded_at |-> NoTime]
ForgedResult == [response |-> "forged", approved |-> TRUE, responded_at |-> 0]
\* The well-formed bodies naming a session of S with a timeout of T, and three
\* bodies that each lack a required field.
ValidBodies(S, T) ==
    [session_id : S,
     client_id : ClientIDs,
     message : {"Deploy?"},
     options : OptionLists,
     timeout_seconds : T,
     result : {CleanResult, ForgedResult}]
PlainBody ==
    [session_id |-> "s1", client_id |-> "c1", message |-> "Deploy?",
     options |-> << >>, timeout_seconds |-> 0, result |-> CleanResult]
ForgedBody == [PlainBody EXCEPT !.result = ForgedResult]
InvalidBodies ==
    {[PlainBody EXCEPT !.session_id = ""],
     [PlainBody EXCEPT !.client_id = ""],
     [PlainBody EXCEPT !.message = ""]}

MissingRequiredFields(body) ==
    body.session_id = "" \/ body.client_id = "" \/ body.message = ""

SessionActiveAlways(session) == TRUE

\* The test "if !session.Active" of SubmitRequest.
SessionActive(session) == session.Active

\* The request SubmitRequest builds from the decoded body.
NewRequest(id, body, t) ==
    [ID |-> id,
     SessionID |-> body.session_id,
     ClientID |-> body.client_id,
     Message |-> body.message,
     Options |-> body.options,
     Timeout |-> IF body.timeout_seconds = 0 THEN DefaultTimeout
                 ELSE body.timeout_seconds,
     Status |-> RequestStatusPending,
     Response |-> body.result.response,
     Approved |-> body.result.approved,
     CreatedAt |-> t,
     RespondedAt |-> body.result.responded_at]

\* HITLHandler.SubmitRequest as a function of the state it runs in: what it
\* answers and how it leaves the requests and the prompts sent.
SubmitRequest(ss, c2t, rs, prompts, id, t, body, storeOK, sendOK) ==
    LET got == GetSession(ss, body.session_id)
        reject(code, msg) ==
            [answer |-> Answer("submit", NoRequest, code, msg),
             requests |-> rs, sent |-> prompts]
    IN
    IF MissingRequiredFields(body)
    THEN reject(StatusBadRequest, "Missing required fields")
    ELSE IF got.err # ""
    THEN reject(StatusNotFound, "Session not found")
    ELSE IF ~SessionActive(got.session)
    THEN reject(StatusBadRequest, "Session is not active")
    ELSE LET req == NewRequest(id, body, t)
             stored == StoreRequest(rs, req, storeOK)
             send == Bot_SendHITLRequest(c2t, req, sendOK)
         IN  IF send.err # ""
             THEN [answer |-> Answer("submit", id, StatusInternalServerError,
                                     "Failed to send request to Telegram"),
                   requests |-> stored.requests, sent |-> prompts]
             ELSE [answer |-> Answer("submit", id, StatusOK, "pending"),
                   requests |-> stored.requests,
                   sent |-> prompts \cup {[chat |-> send.chat, rid |-> id]}]

HITLHandler_SubmitRequest(body, storeOK, sendOK) ==
    \E done \in {SubmitRequest(sessions, clientToTelegram, requests, sent,
                               nextID + 1, now, body, storeOK, sendOK)} :
        /\ done.answer.rid # NoRequest => nextID < MaxRequests
        /\ nextID' = IF done.answer.rid # NoRequest THEN nextID + 1 ELSE nextID
        /\ requests' = done.requests
        /\ sent' = done.sent
        /\ outcome' = done.answer
        /\ UNCHANGED <<sessions, clientToTelegram, now, bot,
                   pendingRequests, calls, reader, sqlite, responder, mcp, client>>

\* The types.PollResponse GET /hitl/poll answers with.
PollResponse(rs, requestID) ==
    LET got == GetRequest(rs, requestID) IN
    IF got.err # ""
    THEN Answer("poll", requestID, StatusNotFound, "Request not found")
    ELSE [Answer("poll", requestID, StatusOK, "") EXCEPT
             !.body = [Status |-> got.request.Status,
                       Response |-> got.request.Response,
                       Approved |-> got.request.Approved,
                       Completed |-> got.request.Status \in TerminalStatuses]]

\* GetRequest hands PollRequest the stored *HITLRequest itself and releases
\* its lock; PollRequest then reads the fields of the composite literal one
\* after another.  This action is the lookup and the 404 answer.
HITLHandler_PollRequest(requestID) ==
    /\ reader = Idle
    /\ LET got == GetRequest(requests, requestID) IN
       IF got.err # ""
       THEN /\ outcome' = PollResponse(requests, requestID)
            /\ UNCHANGED reader
       ELSE /\ reader' = [at |-> "Status", requestID |-> requestID, body |-> NoBody]
            /\ UNCHANGED outcome
    /\ UNCHANGED <<sessions, clientToTelegram, requests, now, nextID, sent, bot,
                   pendingRequests, calls, sqlite, responder, mcp, client>>

\* The next field of types.PollResponse is read from the shared request; the
\* last one, Completed, reads request.Status again and the answer is encoded.
HITLHandler_PollRequestRead ==
    /\ reader # Idle
    /\ LET request == requests[reader.requestID] IN
       CASE reader.at = "Status" ->
                /\ reader' = [reader EXCEPT !.at = "Response",
                                            !.body.Status = request.Status]
                /\ UNCHANGED outcome
         [] reader.at = "Response" ->
                /\ reader' = [reader EXCEPT !.at = "Approved",
                                            !.body.Response = request.Response]
                /\ UNCHANGED outcome
         [] reader.at = "Approved" ->
                /\ reader' = [reader EXCEPT !.at = "Completed",
                                            !.body.Approved = request.Approved]
                /\ UNCHANGED outcome
         [] reader.at = "Completed" ->
                /\ reader' = Idle
                /\ outcome' = [Answer("poll", reader.requestID, StatusOK, "") EXCEPT
                                  !.body = [reader.body EXCEPT
                                               !.Completed = request.Status \in TerminalStatuses]]
    /\ UNCHANGED <<sessions, clientToTelegram, requests, now, nextID, sent, bot,
                   pendingRequests, calls, sqlite, responder, mcp, client>>

HITLHandler_CancelRequest(requestID) ==
    LET done == CancelRequest(requests, requestID) IN
    /\ requests' = done.requests
    /\ outcome' = IF done.err # ""
                  THEN Answer("cancel", requestID, StatusInternalServerError,
                              "Failed to cancel request")
                  ELSE Answer("cancel", requestID, StatusOK,
                              "Request canceled successfully")
    /\ UNCHANGED <<sessions, clientToTelegram, now, nextID, sent, bot,
                   pendingRequests, calls, reader, sqlite, responder, mcp, client>>

HITLHandler_RegisterSession(sessionID, clientID, telegramID) ==
    LET done == RegisterSession(sessions, clientToTelegram, sessionID, clientID,
                                telegramID, now) IN
    /\ sessions' = done.sessions
    /\ clientToTelegram' = done.clientToTelegram
    /\ outcome' = IF done.err # ""
                  THEN Answer("register", NoRequest, StatusInternalServerError,
                              "Failed to register session")
                  ELSE Answer("register", NoRequest, StatusOK,
                              "Session registered successfully")
    /\ UNCHANGED <<requests, now, nextID, sent, bot,
                   pendingRequests, calls, reader, sqlite, responder, mcp, client>>

HITLHandler_DeactivateSession(sessionID) ==
    LET done == DeactivateSession(sessions, clientToTelegram, sessionID) IN
    /\ sessions' = done.sessions
    /\ clientToTelegram' = done.clientToTelegram
    /\ outcome' = IF done.err # ""
                  THEN Answer("deactivate", NoRequest, StatusInternalServerError,
                              "Failed to deactivate session")
                  ELSE Answer("deactivate", NoRequest, StatusOK,
                              "Session deactivated successfully")
    /\ UNCHANGED <<requests, now, nextID, sent, bot,
                   pendingRequests, calls, reader, sqlite, responder, mcp, client>>

\* ------------------------------------------------------------ the bot's ingress

\* A reply, sent in the chat chatID, to a message that quotes
\* "Request ID: `<requestID>`".  The chat is where the bot's answer goes.
Bot_handleReply(chatID, requestID, text) ==
    /\ bot = Idle
    /\ LET done == UpdateRequestResponse(requests, requestID, text, TRUE, now) IN
       /\ requests' = done.requests
       /\ outcome' = IF done.err # ""
                     THEN [Answer("reply", requestID, 0, "Error updating request")
                              EXCEPT !.chat = chatID]
                     ELSE [Answer("reply", requestID, 0,
                                  "Response recorded successfully")
                              EXCEPT !.chat = chatID]
    /\ UNCHANGED <<sessions, clientToTelegram, now, nextID, sent, bot,
                   pendingRequests, calls, reader, sqlite, responder, mcp, client>>

\* A text is the sequence of its lines (strings.Split(text, "\n")) and a line
\* the sequence of the pieces its backticks separate (strings.Split(line,
\* "`")).  The texts an agent sends as the message of a request:
\* InjectedMessage stands for "Deploy?", a line break and "Request ID: `2`".
InjectedMessage == "Deploy? <br> Request ID: <2>"
MessageLines(message) ==
    CASE message = InjectedMessage -> << <<"Deploy?">>, <<"Request ID: ", "2", "">> >>
      [] message = "Request ID: none" -> << <<"Request ID: none">> >>
      [] OTHER -> << <<message>> >>

\* fmt.Sprintf("%s", request.ID): the numeral of the model's request id.
RequestIDText(id) ==
    CASE id = 1 -> "1"
      [] id = 2 -> "2"
      [] id = 3 -> "3"
      [] OTHER -> "9"

\* Bot.createSimpleMessage: the agent's message, then the line of the id.
Bot_createSimpleMessage(chatID, request) ==
    << <<"HITL Request">>, <<"">> >>
    \o MessageLines(request.Message)
    \o << <<"">>,
          <<"*Request ID:* ", RequestIDText(request.ID), "">>,
          <<"*Client:* ", request.ClientID>>,
          <<"*Session:* ", request.SessionID>>,
          <<"">>,
          <<"Please reply with your response.">> >>

\* strings.Contains(line, "Request ID:") on the pieces of the model's lines.
ContainsRequestID(line) ==
    \E i \in 1..Len(line) :
        line[i] \in {"Request ID: ", "*Request ID:* ", "Request ID: none"}

\* Bot.extractRequestID: the first line that contains "Request ID:" and has a
\* backtick gives the id; "" if there is none.
Bot_extractRequestID(text) ==
    LET hits == {i \in 1..Len(text) : ContainsRequestID(text[i]) /\ Len(text[i]) >= 2}
    IN  IF hits = {} THEN ""
        ELSE text[CHOOSE i \in hits : \A j \in hits : i <= j][2]

\* strconv.Atoi over the numerals the callbacks and request ids are written with.
Atoi(str) ==
    CASE str = "-1" -> [err |-> "", n |-> -1]
      [] str = "0" -> [err |-> "", n |-> 0]
      [] str = "1" -> [err |-> "", n |-> 1]
      [] str = "2" -> [err |-> "", n |-> 2]
      [] str = "9" -> [err |-> "", n |-> 9]
      [] OTHER -> [err |-> "invalid syntax", n |-> 0]

\* handleReply from the text of the message replied to: no "Request ID:" in
\* it, or no id found, and the reply is dropped without an answer.
Bot_handleReplyTo(chatID, replyText, text) ==
    IF (\A i \in 1..Len(replyText) : ~ContainsRequestID(replyText[i]))
       \/ Bot_extractRequestID(replyText) = ""
    THEN /\ bot = Idle
         /\ outcome' = [Answer("reply", NoRequest, 0, "ignored") EXCEPT !.chat = chatID]
         /\ UNCHANGED <<sessions, clientToTelegram, requests, now, nextID, sent, bot,
                        pendingRequests, calls, reader, sqlite, responder, mcp, client>>
    ELSE Bot_handleReply(chatID, Atoi(Bot_extractRequestID(replyText)).n, text)

\* A callback "response:<requestID>:<optionIndex>", up to the request's lookup.
\* request.Options[optionIndex] with a negative index is a run-time panic in
\* the goroutine of Bot.Start, which nothing recovers.
Bot_handleCallbackQuery(chatID, requestID, optionIndex) ==
    /\ bot = Idle
    /\ LET got == GetRequest(requests, requestID) IN
       IF got.err # ""
       THEN /\ outcome' = [Answer("callback", requestID, 0, "Request not found")
                              EXCEPT !.chat = chatID]
            /\ UNCHANGED bot
       ELSE IF optionIndex >= Len(got.request.Options)
       THEN /\ outcome' = [Answer("callback", requestID, 0, "Invalid option")
                              EXCEPT !.chat = chatID]
            /\ UNCHANGED bot
       ELSE IF optionIndex < 0
       THEN /\ bot' = Panicked
            /\ outcome' = [Answer("callback", requestID, 0, "index out of range")
                              EXCEPT !.chat = chatID]
       ELSE LET selectedOption == SelectedOption(got.request, optionIndex) IN
            /\ bot' = [at |-> "update", chatID |-> chatID, requestID |-> requestID,
                       optionIndex |-> optionIndex,
                       selectedOption |-> selectedOption,
                       approved |-> CallbackApproved(selectedOption)]
            /\ UNCHANGED outcome
    /\ UNCHANGED <<sessions, clientToTelegram, requests, now, nextID, sent,
                   pendingRequests, calls, reader, sqlite, responder, mcp, client>>

\* handleCallbackQuery from the callback's data, given as strings.Split(data,
\* ":") yields it: the prefix, the length and the number are tested, then the
\* request is looked up.  The request id is the numeral of the model's id.
Bot_handleCallbackData(chatID, parts) ==
    IF parts[1] # "response" \/ Len(parts) # 3 \/ Atoi(parts[3]).err # ""
    THEN /\ bot = Idle
         /\ outcome' = Answer("callback", NoRequest, 0, "ignored")
         /\ UNCHANGED <<sessions, clientToTelegram, requests, now, nextID, sent, bot,
                        pendingRequests, calls, reader, sqlite, responder, mcp, client>>
    ELSE Bot_handleCallbackQuery(chatID, Atoi(parts[2]).n, Atoi(parts[3]).n)

\* The rest of handleCallbackQuery: the update and the answer to the human.
Bot_handleCallbackQueryUpdate ==
    /\ bot.at = "update"
    /\ LET done == UpdateRequestResponse(requests, bot.requestID, bot.selectedOption,
                                         bot.approved, now) IN
       /\ requests' = done.requests
       /\ outcome' = IF done.err # ""
                     THEN [Answer("callback", bot.requestID, 0, "Error updating request")
                              EXCEPT !.chat = bot.chatID]
                     ELSE [Answer("callback", bot.requestID, 0, "Selected")
                              EXCEPT !.chat = bot.chatID]
    /\ bot' = Idle
    /\ UNCHANGED <<sessions, clientToTelegram, now, nextID, sent,
                   pendingRequests, calls, reader, sqlite, responder, mcp, client>>

\* ------------------------------------------------------------ the reads
\* GET /hitl/pending
HITLHandler_ListPendingRequests ==
    /\ \E pending \in RangeOrders(GetPendingRequests(requests)) :
           outcome' = [Answer("pending", NoRequest, StatusOK, "") EXCEPT
                          !.pending = pending]
    /\ UNCHANGED <<sessions, clientToTelegram, requests, now, nextID, sent, bot,
                   pendingRequests, calls, reader, sqlite, responder, mcp, client>>

\* GetStatus, were it to write the session it reads.
HITLHandler_GetStatusTouching(sessionID) == HITLHandler_DeactivateSession(sessionID)

\* GET /hitl/status?session_id=
HITLHandler_GetStatus(sessionID) ==
    /\ LET got == GetSession(sessions, sessionID) IN
       outcome' = IF got.err # ""
                  THEN Answer("status", NoRequest, StatusNotFound, "Session not found")
                  ELSE [Answer("status", NoRequest, StatusOK, sessionID) EXCEPT
                           !.active = IF got.session.Active THEN {sessionID} ELSE {}]
    /\ UNCHANGED <<sessions, clientToTelegram, requests, now, nextID, sent, bot,
                   pendingRequests, calls, reader, sqlite, responder, mcp, client>>

\* The chat command /status: the active sessions bound to the chat.
Bot_handleStatusCommand(chatID) ==
    /\ bot = Idle
    /\ LET active == GetActiveSessions(sessions) IN
       outcome' = IF active = {}
                  THEN Answer("/status", NoRequest, 0, "No active sessions found.")
                  ELSE [Answer("/status", NoRequest, 0, "Active Sessions:") EXCEPT
                           !.active = {s \in active : sessions[s].TelegramID = chatID}]
    /\ UNCHANGED <<sessions, clientToTelegram, requests, now, nextID, sent, bot,
                   pendingRequests, calls, reader, sqlite, responder, mcp, client>>

\* The chat command /pending: the pending requests whose client resolves to
\* the chat.
Bot_handlePendingCommand(chatID) ==
    /\ bot = Idle
    /\ LET mine == {id \in GetPendingRequests(requests) :
                       LET got == GetTelegramID(clientToTelegram, requests[id].ClientID)
                       IN  got.err = "" /\ got.telegramID = chatID}
       IN
       IF GetPendingRequests(requests) = {}
       THEN outcome' = Answer("/pending", NoRequest, 0, "No pending requests.")
       ELSE \E pending \in RangeOrders(mine) :
                outcome' = [Answer("/pending", NoRequest, 0, "Pending Requests:") EXCEPT
                               !.pending = pending]
    /\ UNCHANGED <<sessions, clientToTelegram, requests, now, nextID, sent, bot,
                   pendingRequests, calls, reader, sqlite, responder, mcp, client>>

\* ------------------------------------------------------------ the blocking Router
\* HandleRequest keeps the id the agent sends and blocks in RouteHITLRequest
\* until the call's ResponseCh delivers, its timer fires or the channel is
\* closed.  A call is [requestID, sessionID, ResponseCh, closed, Timeout, at,
\* response]; pendingRequests maps a request id to the call whose
\* PendingRequest is stored under it.

NoResponse == [ID |-> NoRequest, Response |-> "", Approved |-> FALSE]
HITLResponse(id, text, approved) == [ID |-> id, Response |-> text, Approved |-> approved]

delete(m, key) == [k \in DOMAIN m \ {key} |-> m[k]]

\* r.pendingRequests[req.ID] = pendingReq
Router_RegisterPending(pending, requestID, call) ==
    [k \in DOMAIN pending \cup {requestID} |->
        IF k = requestID THEN call ELSE pending[k]]

\* HandleRequest and RouteHITLRequest up to the select.
Router_RouteHITLRequest(requestID, sessionID, sendOK) ==
    /\ Len(calls) < MaxCalls
    /\ LET got == GetSession(sessions, sessionID)
           call == Len(calls) + 1
       IN
       IF got.err # "" \/ ~got.session.Active
       THEN /\ outcome' = Answer("route", requestID, StatusInternalServerError,
                                 IF got.err # "" THEN "session not found"
                                 ELSE "session is not active")
            /\ UNCHANGED <<pendingRequests, calls>>
       ELSE IF ~sendOK
       THEN /\ pendingRequests' =
                   delete(Router_RegisterPending(pendingRequests, requestID, call),
                          requestID)
            /\ outcome' = Answer("route", requestID, StatusInternalServerError,
                                 "failed to send telegram message")
            /\ UNCHANGED calls
       ELSE /\ pendingRequests' = Router_RegisterPending(pendingRequests, requestID, call)
            /\ calls' = Append(calls, [requestID |-> requestID, sessionID |-> sessionID,
                                       ResponseCh |-> << >>, closed |-> FALSE,
                                       Timeout |-> now + RouteTimeout,
                                       at |-> "select", response |-> NoResponse])
            /\ UNCHANGED outcome
    /\ UNCHANGED <<sessions, clientToTelegram, requests, now, nextID, sent, bot, reader, sqlite, responder, mcp, client>>

\* case response := <-responseCh: a sent value, or nil from a closed channel,
\* which HandleRequest dereferences.
Router_Receive(call) ==
    /\ call \in DOMAIN calls
    /\ calls[call].at = "select"
    /\ calls[call].ResponseCh # << >> \/ calls[call].closed
    /\ LET response == IF calls[call].ResponseCh # << >>
                       THEN Head(calls[call].ResponseCh)
                       ELSE NoResponse
       IN
       /\ calls' = [calls EXCEPT ![call].at = "returned",
                                 ![call].response = response,
                                 ![call].ResponseCh = << >>]
       /\ outcome' = IF response = NoResponse
                     THEN Answer("route", calls[call].requestID, 0,
                                 "nil pointer dereference")
                     ELSE [Answer("route", calls[call].requestID, StatusOK, "") EXCEPT
                              !.body.Response = response.Response,
                              !.body.Approved = response.Approved,
                              !.body.Completed = TRUE]
    /\ pendingRequests' = delete(pendingRequests, calls[call].requestID)
    /\ UNCHANGED <<sessions, clientToTelegram, requests, now, nextID, sent, bot, reader, sqlite, responder, mcp, client>>

\* case <-time.After(time.Until(timeout))
Router_Timeout(call) ==
    /\ call \in DOMAIN calls
    /\ calls[call].at = "select"
    /\ now >= calls[call].Timeout
    /\ calls' = [calls EXCEPT ![call].at = "returned"]
    /\ pendingRequests' = delete(pendingRequests, calls[call].requestID)
    /\ outcome' = Answer("route", calls[call].requestID, StatusInternalServerError,
                         "request timeout")
    /\ UNCHANGED <<sessions, clientToTelegram, requests, now, nextID, sent, bot, reader, sqlite, responder, mcp, client>>

\* One round of cleanupExpiredRequests.
Router_cleanupExpiredRequests ==
    LET expired == {id \in DOMAIN pendingRequests :
                       now > calls[pendingRequests[id]].Timeout}
    IN
    /\ expired # {}
    /\ calls' = [k \in DOMAIN calls |->
                    IF \E id \in expired : pendingRequests[id] = k
                    THEN [calls[k] EXCEPT !.closed = TRUE]
                    ELSE calls[k]]
    /\ pendingRequests' = [id \in DOMAIN pendingRequests \ expired |-> pendingRequests[id]]
    /\ UNCHANGED <<sessions, clientToTelegram, requests, now, nextID, sent, bot,
                   outcome, reader, sqlite, responder, mcp, client>>

\* HandleTelegramResponse(sessionID, response), its first half: the pending
\* request stored under response.ID is read under the read lock, and the
\* lock is released before anything is sent.
Router_HandleTelegramResponse(response) ==
    /\ responder = Idle
    /\ IF response.ID \notin DOMAIN pendingRequests
       THEN /\ outcome' = Answer("response", response.ID, 0, "no pending request found")
            /\ UNCHANGED responder
       ELSE /\ responder' = [at |-> "send", call |-> pendingRequests[response.ID],
                             response |-> response]
            /\ UNCHANGED outcome
    /\ UNCHANGED <<sessions, clientToTelegram, requests, now, nextID, sent, bot,
                   pendingRequests, calls, reader, sqlite, mcp, client>>

\* HandleTelegramResponse, its second half: the non-blocking send on the
\* buffered channel of the call that was read.  A send on a closed channel
\* is a run-time panic, in a select as anywhere else.
Router_HandleTelegramResponseSend ==
    /\ responder.at = "send"
    /\ LET call == responder.call
           response == responder.response
       IN
       IF calls[call].closed
       THEN /\ outcome' = Answer("response", response.ID, 0, "send on closed channel")
            /\ responder' = Panicked
            /\ UNCHANGED calls
       ELSE IF Len(calls[call].ResponseCh) < ResponseChCap
       THEN /\ calls' = [calls EXCEPT ![call].ResponseCh = Append(@, response)]
            /\ outcome' = Answer("response", response.ID, 0, "")
            /\ responder' = Idle
       ELSE /\ outcome' = Answer("response", response.ID, 0, "response channel full")
            /\ responder' = Idle
            /\ UNCHANGED calls
    /\ UNCHANGED <<sessions, clientToTelegram, requests, now, nextID, sent, bot,
                   pendingRequests, reader, sqlite, mcp, client>>

\* ------------------------------------------------------------ the MCP dispatcher
\* A line read by Server.Start is requestData.  It is modelled by what
\* json.Unmarshal makes of it: parsed or not, its method, whether params is a
\* JSON object, the tool name in it (NoName when "name" is absent or no
\* string) and the keys of "arguments".

ParseError == -32700
MethodNotFound == -32601
InvalidParams == -32602
NoName == "<none>"
ToolNames == {"request_human_input", "check_request_status",
              "list_pending_requests", "cancel_request"}
RequiredArguments == {"client_id", "session_id", "message"}

MCPResult(text) == [code |-> 0, text |-> text]
MCPError(code, message) == [code |-> code, text |-> message]

Protocol_handleRequestHumanInput(arguments) ==
    MCPResult("MCP tool call received. Use HTTP API endpoint /hitl/request")

Protocol_handleCheckRequestStatus(arguments) ==
    MCPResult("Use HTTP API endpoint /hitl/poll")

Protocol_handleToolsCall(req) ==
    IF ~req.params.isMap
    THEN MCPError(InvalidParams, "Invalid params")
    ELSE IF req.params.name = NoName
    THEN MCPError(InvalidParams, "Missing tool name")
    ELSE CASE req.params.name = "request_human_input" ->
                  Protocol_handleRequestHumanInput(req.params.arguments)
           [] req.params.name = "check_request_status" ->
                  Protocol_handleCheckRequestStatus(req.params.arguments)
           [] req.params.name = "list_pending_requests" ->
                  MCPResult("Use HTTP API endpoint /hitl/pending")
           [] req.params.name = "cancel_request" ->
                  MCPResult("Use HTTP API endpoint /hitl/cancel")
           [] OTHER -> MCPError(MethodNotFound, "Tool not found")

Protocol_HandleRequest(req) ==
    IF ~req.parsed
    THEN MCPError(ParseError, "Parse error")
    ELSE CASE req.method = "initialize" -> MCPResult("loopgate")
           [] req.method = "tools/list" -> MCPResult("tools")
           [] req.method = "tools/call" -> Protocol_handleToolsCall(req)
           [] OTHER -> MCPError(MethodNotFound, "Method not found")

\* One line served by Server.Start: the response is written to the output.
Server_Start(req) ==
    /\ LET response == Protocol_HandleRequest(req) IN
       outcome' = Answer("mcp", NoRequest, response.code, response.text)
    /\ UNCHANGED <<sessions, clientToTelegram, requests, now, nextID, sent, bot,
                   pendingRequests, calls, reader, sqlite, responder, mcp, client>>

\* ------------------------------------------------------------ the MCP server on stdio
\* MCPServer.HandleStdio reads one JSON-RPC message per line from its stdin
\* and writes what the handler returns as one line to its stdout; MCPClient
\* writes to that stdin and reads from that stdout.  A message is [raw, id,
\* method, params]; a notification has no id (NoID).  A line written back is
\* [kind, id, error].

MethodInitialize == "initialize"
MethodInitialized == "initialized"
MethodListTools == "tools/list"
MethodCallTool == "tools/call"
MethodShutdown == "shutdown"

ErrorCodeParseError == "ParseError"
ErrorCodeInvalidRequest == "InvalidRequest"
ErrorCodeMethodNotFound == "MethodNotFound"
ErrorCodeInvalidParams == "InvalidParams"
ErrorCodeServerError == "ServerError"

NewMCPResponse(id) == [kind |-> "response", id |-> id, error |-> ""]
NewMCPError(id, code) == [kind |-> "error", id |-> id, error |-> code]
\* encoder.Encode of the nil a handler returned: the line "null".
NullLine == [kind |-> "null", id |-> NoID, error |-> ""]
\* The handler has not returned: it waits in Router.RouteHITLRequest.
InRouteHITLRequest(id) == [kind |-> "waits", id |-> id, error |-> ""]

NoParams == [isMap |-> FALSE, name |-> NoName, arguments |-> << >>]

getString(params, key) == IF key \in DOMAIN params THEN params[key] ELSE ""

\* handleListTools, were it to answer before the handshake.
MCPServer_handleListToolsAlways(initialized, request) == NewMCPResponse(request.id)

MCPServer_handleInitialize(request) == NewMCPResponse(request.id)

MCPServer_handleInitialized(request) == NullLine

MCPServer_handleListTools(initialized, request) ==
    IF ~initialized
    THEN NewMCPError(request.id, ErrorCodeInvalidRequest)
    ELSE NewMCPResponse(request.id)

MCPServer_handleHITLToolCall(ss, requestID, args) ==
    IF getString(args, "session_id") = "" \/ getString(args, "client_id") = ""
       \/ getString(args, "message") = ""
    THEN NewMCPError(requestID, ErrorCodeInvalidParams)
    ELSE LET got == GetSession(ss, getString(args, "session_id")) IN
         IF got.err # "" \/ ~got.session.Active
         THEN NewMCPError(requestID, ErrorCodeServerError)
         ELSE InRouteHITLRequest(requestID)

MCPServer_handleRegisterSessionToolCall(requestID, args) ==
    NewMCPError(requestID, ErrorCodeMethodNotFound)

MCPServer_handleCallTool(initialized, ss, request) ==
    IF ~initialized
    THEN NewMCPError(request.id, ErrorCodeInvalidRequest)
    ELSE IF ~request.params.isMap
    THEN NewMCPError(request.id, ErrorCodeInvalidParams)
    ELSE IF request.params.name = NoName
    THEN NewMCPError(request.id, ErrorCodeInvalidParams)
    ELSE CASE request.params.name = "hitl_request" ->
                 MCPServer_handleHITLToolCall(ss, request.id, request.params.arguments)
           [] request.params.name = "register_session" ->
                 MCPServer_handleRegisterSessionToolCall(request.id,
                                                         request.params.arguments)
           [] OTHER -> NewMCPError(request.id, ErrorCodeMethodNotFound)

MCPServer_handleShutdown(request) == NewMCPResponse(request.id)

MCPServer_handleMCPRequest(initialized, ss, request) ==
    CASE request.method = MethodInitialize -> MCPServer_handleInitialize(request)
      [] request.method = MethodInitialized -> MCPServer_handleInitialized(request)
      [] request.method = MethodListTools ->
            MCPServer_handleListTools(initialized, request)
      [] request.method = MethodCallTool ->
            MCPServer_handleCallTool(initialized, ss, request)
      [] request.method = MethodShutdown -> MCPServer_handleShutdown(request)
      [] OTHER -> NewMCPError(request.id, ErrorCodeMethodNotFound)

\* One round of the loop of HandleStdio: the next line of stdin, and the line
\* it writes for it.  handleInitialize is the one writer of s.initialized.
MCPServer_HandleStdio ==
    /\ mcp.at = "Scan"
    /\ mcp.stdin # << >>
    /\ LET line == Head(mcp.stdin) IN
       IF line.raw = "empty"
       THEN /\ mcp' = [mcp EXCEPT !.stdin = Tail(@)]
            /\ outcome' = Answer("HandleStdio", NoID, 0, "skipped")
       ELSE IF line.raw # "json"
       THEN /\ mcp' = [mcp EXCEPT !.stdin = Tail(@),
                                  !.stdout = Append(@, NewMCPError(NoID,
                                                        ErrorCodeParseError))]
            /\ outcome' = Answer("HandleStdio", NoID, 0, ErrorCodeParseError)
       ELSE \E response \in {MCPServer_handleMCPRequest(mcp.initialized, sessions, line)} :
            /\ mcp' = IF response.kind = "waits"
                      THEN [mcp EXCEPT !.stdin = Tail(@), !.at = "RouteHITLRequest"]
                      ELSE [mcp EXCEPT !.stdin = Tail(@),
                                       !.stdout = Append(@, response),
                                       !.initialized =
                                           @ \/ line.method = MethodInitialize]
            /\ outcome' = [Answer("HandleStdio", line.id, 0,
                                  IF response.kind = "error" THEN response.error
                                  ELSE response.kind)
                              EXCEPT !.op = line.method]
    /\ UNCHANGED <<sessions, clientToTelegram, requests, now, nextID, sent, bot,
                   pendingRequests, calls, reader, sqlite, responder, client>>

\* ------------------------------------------------------------ the MCP client
\* MCPClient on the other end of the pipes.  c.mu is a sync.Mutex: a Lock
\* waits until the mutex is free, whoever holds it.

MCPClient_ConnectToServer ==
    /\ client.at = "idle"
    /\ ~client.connected
    /\ ~client.mu
    /\ client' = [client EXCEPT !.connected = TRUE]
    /\ UNCHANGED <<sessions, clientToTelegram, requests, now, nextID, sent, bot,
                   outcome, pendingRequests, calls, reader, sqlite, responder, mcp>>

\* sendRequest up to Encode: the id is taken under the mutex, the request is
\* written.  Its caller is a method that holds no lock, or Close.
MCPClient_sendRequest(method, params) ==
    /\ client.connected
    /\ client.at \in {"idle", "Close"}
    /\ client.at = "idle" => client.written < MaxLines
    /\ client.at = "Close" => (method = MethodShutdown /\ params = NoParams)
    /\ ~client.mu
    /\ client' = [client EXCEPT !.requestID = @ + 1,
                                !.written = @ + 1,
                                !.asked = client.requestID,
                                !.at = "Decode"]
    /\ mcp' = [mcp EXCEPT !.stdin = Append(@, [raw |-> "json", id |-> client.requestID,
                                               method |-> method, params |-> params])]
    /\ UNCHANGED <<sessions, clientToTelegram, requests, now, nextID, sent, bot,
                   outcome, pendingRequests, calls, reader, sqlite, responder>>

\* sendRequest from Decode: the next line of the server's stdout is taken as
\* the response.  In Close the pipes are closed after it and the mutex is
\* released on return.
MCPClient_sendRequestDecode ==
    /\ client.at = "Decode"
    /\ mcp.stdout # << >>
    /\ client' = [client EXCEPT
                     !.read = Append(@, [asked |-> client.asked,
                                         got |-> Head(mcp.stdout)]),
                     !.asked = NoID,
                     !.at = IF client.closing THEN "closed" ELSE "idle",
                     !.mu = IF client.closing THEN FALSE ELSE @]
    /\ mcp' = [mcp EXCEPT !.stdout = Tail(@)]
    /\ UNCHANGED <<sessions, clientToTelegram, requests, now, nextID, sent, bot,
                   outcome, pendingRequests, calls, reader, sqlite, responder>>

\* sendNotification: a message without id is written, nothing is read.
MCPClient_sendNotification(method) ==
    /\ client.connected
    /\ client.at = "idle"
    /\ client.written < MaxLines
    /\ client' = [client EXCEPT !.written = @ + 1]
    /\ mcp' = [mcp EXCEPT !.stdin = Append(@, [raw |-> "json", id |-> NoID,
                                               method |-> method,
                                               params |-> NoParams])]
    /\ UNCHANGED <<sessions, clientToTelegram, requests, now, nextID, sent, bot,
                   outcome, pendingRequests, calls, reader, sqlite, responder>>

\* Close: the mutex is taken and kept (defer Unlock); without a server
\* process Close returns at once, with one it calls sendRequest.
MCPClient_Close ==
    /\ client.at = "idle"
    /\ ~client.mu
    /\ client' = IF client.connected
                 THEN [client EXCEPT !.mu = TRUE, !.at = "Close", !.closing = TRUE]
                 ELSE [client EXCEPT !.at = "closed"]
    /\ UNCHANGED <<sessions, clientToTelegram, requests, now, nextID, sent, bot,
                   outcome, pendingRequests, calls, reader, sqlite, responder, mcp>>

\* ------------------------------------------------------------ time

Tick ==
    /\ now < MaxTime
    /\ now' = now + 1
    /\ UNCHANGED <<sessions, clientToTelegram, requests, nextID, sent, bot, outcome,
                   pendingRequests, calls, reader, sqlite, responder, mcp, client>>

\* ------------------------------------------------------------ the system

RequestIDs == 1..MaxRequests

Init ==
    /\ sessions = << >>
    /\ clientToTelegram = << >>
    /\ requests = << >>
    /\ now = 0
    /\ nextID = 0
    /\ sent = {}
    /\ bot = Idle
    /\ outcome = Answer("none", NoRequest, 0, "")
    /\ pendingRequests = << >>
    /\ calls = << >>
    /\ reader = Idle
    /\ sqlite = [sessions |-> << >>, requests |-> << >>, err |-> ""]
    /\ responder = Idle
    /\ mcp = [initialized |-> FALSE, at |-> "Scan", stdin |-> << >>, stdout |-> << >>]
    /\ client = [connected |-> FALSE, mu |-> FALSE, requestID |-> 1, at |-> "idle",
                 asked |-> NoID, closing |-> FALSE, written |-> 0, read |-> << >>]

\* The operations, with the inputs the environment draws.
Register(S, C) == \E s \in S, c \in C, t \in TelegramIDs :
                      HITLHandler_RegisterSession(s, c, t)
Deactivate(S) == \E s \in S : HITLHandler_DeactivateSession(s)
Submit(B) == \E body \in B, storeOK \in BOOLEAN, sendOK \in BOOLEAN :
                 HITLHandler_SubmitRequest(body, storeOK, sendOK)
Poll == \E r \in RequestIDs : HITLHandler_PollRequest(r)
Cancel == \E r \in RequestIDs : HITLHandler_CancelRequest(r)
Reply(T) == \E chat \in TelegramIDs, r \in RequestIDs, text \in T :
    Bot_handleReply(chat, r, text)
Callback == \E chat \in TelegramIDs, r \in RequestIDs, i \in OptionIndexes :
    Bot_handleCallbackQuery(chat, r, i)
CallbackUpdate == Bot_handleCallbackQueryUpdate

\* The request lifecycle: one session id, every kind of submission, all of
\* it within one reading of the clock.
LifecycleBodies ==
    {b \in ValidBodies({"s1"}, {0}) : b.result = ForgedResult => b = ForgedBody}
        \cup InvalidBodies

Next ==
    \/ Register({"s1"}, ClientIDs)
    \/ Deactivate({"s1"})
    \/ Submit(LifecycleBodies)
    \/ Cancel
    \/ Reply(ReplyTexts)
    \/ Callback
    \/ CallbackUpdate

Spec == Init /\ [][Next]_vars

\* The same system with time passing: one client whose session stays active,
\* choice requests that name their own timeout_seconds and are answered by a
\* button.
TimedBodies ==
    {b \in ValidBodies({"s1"}, 1..MaxTimeout) :
        b.client_id = "c1" /\ b.result = CleanResult /\ b.options # << >>}

NextTimed ==
    \/ Register({"s1"}, {"c1"})
    \/ Submit(TimedBodies)
    \/ Cancel
    \/ Callback
    \/ CallbackUpdate
    \/ Tick

SpecTimed == Init /\ [][NextTimed]_vars

\* The session directory: two session ids, two clients, two chats, with time
\* passing between the registrations.
SessionTelegramIDs == {41, 42}

RegisterAny == \E s \in SessionIDs, c \in ClientIDs, t \in SessionTelegramIDs :
                   HITLHandler_RegisterSession(s, c, t)

NextSessions ==
    \/ RegisterAny
    \/ Deactivate(SessionIDs)
    \/ Tick

SpecSessions == Init /\ [][NextSessions]_vars

\* Choice requests of one client and the buttons pressed on them.
ChoiceOptionLists == {<<"Yes", "No">>, <<"Approve", "REJECT">>}

ChoiceBodies ==
    {[PlainBody EXCEPT !.options = o] : o \in ChoiceOptionLists \cup OptionLists}

NextChoice ==
    \/ Register({"s1"}, {"c1"})
    \/ Submit(ChoiceBodies)
    \/ Reply(ReplyTexts)
    \/ Callback
    \/ CallbackUpdate

SpecChoice == Init /\ [][NextChoice]_vars

\* The blocking architecture: agents choose their request ids, the bot hands
\* responses to the Router, the clock runs past the calls' timeouts.
Route == \E r \in RequestIDs, sendOK \in BOOLEAN :
             Router_RouteHITLRequest(r, "s1", sendOK)
Receive == \E k \in 1..MaxCalls : Router_Receive(k)
Timeout == \E k \in 1..MaxCalls : Router_Timeout(k)
Response == \E r \in RequestIDs, text \in ReplyTexts :
                Router_HandleTelegramResponse(HITLResponse(r, text, text = "yes"))

NextRouter ==
    \/ Register({"s1"}, {"c1"})
    \/ Deactivate({"s1"})
    \/ Route
    \/ Receive
    \/ Timeout
    \/ Router_cleanupExpiredRequests
    \/ Response
    \/ Router_HandleTelegramResponseSend
    \/ Tick

SpecRouter == Init /\ [][NextRouter]_vars

\* The reads beside the writes: one session, two requests, polls that run
\* while the bot and the agent write.
ReadBodies == {PlainBody}
PollRead == HITLHandler_PollRequestRead
ListPending == HITLHandler_ListPendingRequests
Status == \E s \in SessionIDs : HITLHandler_GetStatus(s)
StatusCommand == \E c \in TelegramIDs : Bot_handleStatusCommand(c)
PendingCommand == \E c \in TelegramIDs : Bot_handlePendingCommand(c)
SubmitStored(B) == \E body \in B : HITLHandler_SubmitRequest(body, TRUE, TRUE)

NextRead ==
    \/ Register({"s1"}, {"c1"})
    \/ SubmitStored(ReadBodies)
    \/ Cancel
    \/ Reply(ReplyTexts)
    \/ Poll
    \/ PollRead
    \/ ListPending
    \/ Status
    \/ StatusCommand
    \/ PendingCommand

SpecRead == Init /\ [][NextRead]_vars

\* The listings, over requests created at different times.
NextList ==
    \/ Register({"s1"}, {"c1"})
    \/ SubmitStored(ReadBodies)
    \/ Cancel
    \/ Reply({"yes"})
    \/ ListPending
    \/ PendingCommand
    \/ Tick

SpecList == Init /\ [][NextList]_vars

\* The callbacks as Telegram delivers them: well formed, of another prefix,
\* short, not a number, for an unknown request, past the options, negative.
CallbackPayloads ==
    {<<"response", "1", "0">>, <<"response", "1", "1">>, <<"response", "1", "2">>,
     <<"response", "1", "-1">>, <<"response", "9", "0">>, <<"response", "1", "x">>,
     <<"response", "1">>, <<"option_0">>}
CallbackData == \E chat \in TelegramIDs, parts \in CallbackPayloads :
    Bot_handleCallbackData(chat, parts)

NextCallback ==
    \/ Register({"s1"}, {"c1"})
    \/ SubmitStored(ChoiceBodies)
    \/ CallbackData
    \/ CallbackUpdate
    \/ Reply(ReplyTexts)

SpecCallback == Init /\ [][NextCallback]_vars

\* The MCP server beside the HTTP API: lines that do not parse, methods and
\* tools known and unknown, arguments complete and incomplete.
MCPParams ==
    [isMap : {TRUE}, name : ToolNames \cup {"bogus", NoName},
     arguments : {RequiredArguments, RequiredArguments \ {"message"},
                  {"request_id"}, {}}]
        \cup {[isMap |-> FALSE, name |-> NoName, arguments |-> {}]}
MCPRequests ==
    [parsed : {TRUE}, method : {"tools/call"}, params : MCPParams]
        \cup [parsed : {TRUE}, method : {"initialize", "tools/list", "bogus"},
              params : {[isMap |-> TRUE, name |-> NoName, arguments |-> {}]}]
        \cup {[parsed |-> FALSE, method |-> "",
               params |-> [isMap |-> FALSE, name |-> NoName, arguments |-> {}]]}

NextMCP ==
    \/ Register({"s1"}, {"c1"})
    \/ SubmitStored(ReadBodies)
    \/ Cancel
    \/ Reply({"yes"})
    \/ \E req \in MCPRequests : Server_Start(req)

SpecMCP == Init /\ [][NextMCP]_vars

\* One sequence of StorageAdapter calls made on the in-memory adapter and on
\* the SQL adapter alike, as the two adapter tests make them.  The in-memory
\* adapter's error is the outcome's msg, the SQL adapter's is sqlite.err.

StorageAdapter_RegisterSession(sessionID, clientID, telegramID) ==
    \E mem \in {RegisterSession(sessions, clientToTelegram, sessionID, clientID,
                                telegramID, now)},
       sql \in {SQLiteStorageAdapter_RegisterSession(sqlite.sessions, sessionID,
                                                     clientID, telegramID, now)} :
        /\ sessions' = mem.sessions
        /\ clientToTelegram' = mem.clientToTelegram
        /\ sqlite' = [sqlite EXCEPT !.sessions = sql.sessions, !.err = sql.err]
        /\ outcome' = Answer("StorageAdapter.RegisterSession", NoRequest, 0, mem.err)
        /\ UNCHANGED <<requests, now, nextID, sent, bot, pendingRequests, calls, reader,
                       responder, mcp, client>>

StorageAdapter_DeactivateSession(sessionID) ==
    \E mem \in {DeactivateSession(sessions, clientToTelegram, sessionID)},
       sql \in {SQLiteStorageAdapter_DeactivateSession(sqlite.sessions, sessionID)} :
        /\ sessions' = mem.sessions
        /\ clientToTelegram' = mem.clientToTelegram
        /\ sqlite' = [sqlite EXCEPT !.sessions = sql.sessions, !.err = sql.err]
        /\ outcome' = Answer("StorageAdapter.DeactivateSession", NoRequest, 0, mem.err)
        /\ UNCHANGED <<requests, now, nextID, sent, bot, pendingRequests, calls, reader,
                       responder, mcp, client>>

StorageAdapter_StoreRequest(requestID) ==
    \E request \in {NewRequest(requestID, PlainBody, now)} :
    \E mem \in {StoreRequest(requests, request, TRUE)},
       sql \in {SQLiteStorageAdapter_StoreRequest(sqlite.requests, request)} :
        /\ requests' = mem.requests
        /\ sqlite' = [sqlite EXCEPT !.requests = sql.requests, !.err = sql.err]
        /\ outcome' = Answer("StorageAdapter.StoreRequest", requestID, 0, mem.err)
        /\ UNCHANGED <<sessions, clientToTelegram, now, nextID, sent, bot,
                       pendingRequests, calls, reader,
                       responder, mcp, client>>

StorageAdapter_UpdateRequestResponse(requestID, response, approved) ==
    \E mem \in {UpdateRequestResponse(requests, requestID, response, approved, now)},
       sql \in {SQLiteStorageAdapter_UpdateRequestResponse(sqlite.requests, requestID,
                                                           response, approved, now)} :
        /\ requests' = mem.requests
        /\ sqlite' = [sqlite EXCEPT !.requests = sql.requests, !.err = sql.err]
        /\ outcome' = Answer("StorageAdapter.UpdateRequestResponse", requestID, 0, mem.err)
        /\ UNCHANGED <<sessions, clientToTelegram, now, nextID, sent, bot,
                       pendingRequests, calls, reader,
                       responder, mcp, client>>

StorageAdapter_CancelRequest(requestID) ==
    \E mem \in {CancelRequest(requests, requestID)},
       sql \in {SQLiteStorageAdapter_CancelRequest(sqlite.requests, requestID)} :
        /\ requests' = mem.requests
        /\ sqlite' = [sqlite EXCEPT !.requests = sql.requests, !.err = sql.err]
        /\ outcome' = Answer("StorageAdapter.CancelRequest", requestID, 0, mem.err)
        /\ UNCHANGED <<sessions, clientToTelegram, now, nextID, sent, bot,
                       pendingRequests, calls, reader,
                       responder, mcp, client>>

NextStores ==
    \/ \E s \in SessionIDs, c \in ClientIDs, t \in TelegramIDs :
           StorageAdapter_RegisterSession(s, c, t)
    \/ \E s \in SessionIDs : StorageAdapter_DeactivateSession(s)
    \/ \E r \in RequestIDs : StorageAdapter_StoreRequest(r)
    \/ \E r \in RequestIDs : StorageAdapter_UpdateRequestResponse(r, "Yes", TRUE)
    \/ \E r \in RequestIDs : StorageAdapter_CancelRequest(r)

SpecStores == Init /\ [][NextStores]_vars

\* Two agents, each bound to its own human: s1 of client c1 to chat 41, s2 of
\* client c2 to chat 42.  A body names any session with any client; a reply
\* or a button press arrives from either chat.
BindingBodies ==
    {[PlainBody EXCEPT !.session_id = s, !.client_id = c, !.options = o] :
        s \in SessionIDs, c \in ClientIDs, o \in OptionLists}

NextBinding ==
    \/ HITLHandler_RegisterSession("s1", "c1", 41)
    \/ HITLHandler_RegisterSession("s2", "c2", 42)
    \/ SubmitStored(BindingBodies)
    \/ \E chat \in SessionTelegramIDs, r \in RequestIDs :
           Bot_handleReply(chat, r, "yes")
    \/ \E chat \in SessionTelegramIDs, r \in RequestIDs :
           Bot_handleCallbackQuery(chat, r, 0)
    \/ CallbackUpdate

SpecBinding == Init /\ [][NextBinding]_vars

\* The human answers the prompts as they were sent: each reply quotes the
\* text createSimpleMessage built for one request.
PromptBodies ==
    {[PlainBody EXCEPT !.message = m] : m \in {"Deploy?", InjectedMessage, "Request ID: none"}}

ReplyToPromptOf(p) ==
    /\ p.rid \in DOMAIN requests
    /\ Bot_handleReplyTo(p.chat, Bot_createSimpleMessage(p.chat, requests[p.rid]), "yes")

NextPrompt ==
    \/ Register({"s1"}, {"c1"})
    \/ SubmitStored(PromptBodies)
    \/ Cancel
    \/ \E p \in sent : ReplyToPromptOf(p)
    \/ Tick

SpecPrompt == Init /\ [][NextPrompt]_vars

\* A client and the MCP server on the two ends of the pipes.
StdioMethods == {MethodInitialize, MethodListTools, MethodCallTool, MethodShutdown, "ping"}
StdioParams ==
    {NoParams,
     [isMap |-> TRUE, name |-> "hitl_request",
      arguments |-> [session_id |-> "s1", client_id |-> "c1", message |-> "Deploy?"]],
     [isMap |-> TRUE, name |-> "hitl_request",
      arguments |-> [session_id |-> "s1", client_id |-> "c1"]],
     [isMap |-> TRUE, name |-> "register_session", arguments |-> << >>]}

SendRequest == \E method \in StdioMethods, params \in StdioParams :
    /\ method # MethodCallTool => params = NoParams
    /\ MCPClient_sendRequest(method, params)

NextStdio ==
    \/ MCPClient_ConnectToServer
    \/ SendRequest
    \/ MCPClient_sendRequestDecode
    \/ MCPClient_sendNotification(MethodInitialized)
    \/ MCPClient_Close
    \/ MCPServer_HandleStdio

SpecStdio == Init /\ [][NextStdio]_vars

\* The same with the scheduling the two processes have: the server's loop
\* runs while it has a line to read, and the client's goroutine takes its
\* next step when that step is possible.
SpecStdioLive ==
    /\ SpecStdio
    /\ WF_vars(MCPServer_HandleStdio)
    /\ WF_vars(MCPClient_sendRequestDecode)
    /\ WF_vars(client.at = "Close" /\ SendRequest)

\* ------------------------------------------------------------ properties

\* The request ids a successful submit returned to its agent.
issued == {p.rid : p \in sent}

Terminal(r) == requests[r].Status \in TerminalStatuses

\* C1: once a request is completed, canceled or timed out, no step changes
\* its status.
TerminalAbsorbing ==
    [][\A r \in DOMAIN requests :
          Terminal(r) => requests'[r].Status = requests[r].Status]_vars

\* C2: when a cancel and a callback reply race for one request, the one that
\* comes second is refused and leaves the winner's status in place.
CancelReplyRace ==
    [][\A r \in DOMAIN requests :
          /\ (HITLHandler_CancelRequest(r)
                  /\ requests[r].Status = RequestStatusCompleted)
             => (outcome'.code # StatusOK
                  /\ requests'[r].Status = RequestStatusCompleted)
          /\ (Bot_handleCallbackQueryUpdate /\ bot.requestID = r
                  /\ requests[r].Status = RequestStatusCanceled)
             => (outcome'.msg = "Error updating request"
                  /\ requests'[r].Status = RequestStatusCanceled)]_vars

\* C3: a request that has had its one successful transition answers every
\* further Complete or Cancel attempt with an error.
OneWinner ==
    \A r \in DOMAIN requests :
        Terminal(r) =>
            /\ CancelRequest(requests, r).err # ""
            /\ \A text \in ReplyTexts :
                   UpdateRequestResponse(requests, r, text, TRUE, now).err # ""

\* C4: after a submit that answered with an error, the request that call
\* created (if any) is not retrievable.
SubmitErrorLeavesNoRequest ==
    (outcome.op = "submit" /\ outcome.code # StatusOK)
        => GetRequest(requests, outcome.rid).err # ""

\* C5: after a submit that failed to send its prompt, the request it created
\* is canceled.
SendFailureCancels ==
    (outcome.op = "submit" /\ outcome.code = StatusInternalServerError)
        => \A r \in DOMAIN requests :
               r = outcome.rid => requests[r].Status = RequestStatusCanceled

\* C6: a request id returned by a successful submit is found by every later
\* poll, pending or in a terminal status.
SubmittedIsStored ==
    \A r \in issued :
        /\ PollResponse(requests, r).code = StatusOK
        /\ PollResponse(requests, r).body.Status
               \in {RequestStatusPending} \cup TerminalStatuses

\* C7: a pending request is never older than its timeout plus the scheduler's
\* tolerance.
TimeoutBound ==
    \A r \in DOMAIN requests :
        requests[r].Status = RequestStatusPending
            => now <= requests[r].CreatedAt + requests[r].Timeout + Epsilon

\* C8: once a request is terminal, its response, approved and responded_at
\* never change.
TerminalFrozen ==
    [][\A r \in DOMAIN requests :
          Terminal(r) =>
              /\ requests'[r].Response = requests[r].Response
              /\ requests'[r].Approved = requests[r].Approved
              /\ requests'[r].RespondedAt = requests[r].RespondedAt]_vars

\* C9: a pending request carries no response, approved=false and no
\* responded_at; a completed request has its responded_at.
ResultSetTogether ==
    \A r \in DOMAIN requests :
        /\ requests[r].Status = RequestStatusPending
              => /\ requests[r].Response = ""
                 /\ requests[r].Approved = FALSE
                 /\ requests[r].RespondedAt = NoTime
        /\ requests[r].Status = RequestStatusCompleted
              => requests[r].RespondedAt # NoTime

\* The sessions that have been deactivated.
InactiveSessions == {s \in DOMAIN sessions : ~sessions[s].Active}

\* C10: in every state, a well-formed submit naming a deactivated session is
\* refused as "Session is not active", stores no request and sends no prompt.
InactiveSubmitRejected ==
    \A body \in LifecycleBodies, storeOK \in BOOLEAN, sendOK \in BOOLEAN :
        (body.session_id \in InactiveSessions /\ ~MissingRequiredFields(body))
        => LET done == SubmitRequest(sessions, clientToTelegram, requests, sent,
                                     nextID + 1, now, body, storeOK, sendOK)
           IN  /\ done.requests = requests
               /\ done.sent = sent
               /\ done.answer.code # StatusOK
               /\ done.answer.msg = "Session is not active"

InactiveSubmitSeen ==
    /\ outcome.op = "submit"
    /\ outcome.msg = "Session is not active"
    /\ sent # {}
    /\ InactiveSessions # {}

\* C11: the number of pending requests never exceeds MAX_CONCURRENT_REQUESTS.
PendingCeiling ==
    Cardinality(GetPendingRequests(requests)) <= MaxConcurrentRequests

\* C12: a callback that names option i of a request and is accepted leaves
\* the request so that a poll answers completed with options[i] as the
\* response, and responded_at is not earlier than created_at.
CallbackCompletes ==
    [][(Bot_handleCallbackQueryUpdate /\ outcome'.msg = "Selected") =>
          LET r == bot.requestID
              poll == PollResponse(requests', r)
          IN  /\ poll.code = StatusOK
              /\ poll.body.Status = RequestStatusCompleted
              /\ poll.body.Response = requests[r].Options[bot.optionIndex + 1]
              /\ requests'[r].RespondedAt >= requests'[r].CreatedAt]_vars

CallbackCompletedLater ==
    /\ outcome.op = "callback"
    /\ outcome.msg = "Selected"
    /\ outcome.rid \in DOMAIN requests
    /\ requests[outcome.rid].Response = "Cancel"
    /\ requests[outcome.rid].RespondedAt > requests[outcome.rid].CreatedAt

\* C13: a choice reply is recorded with approved = false exactly when the
\* selected option, in lower case, is cancel, reject, deny or no.
ChoiceApproval ==
    (outcome.op = "callback" /\ outcome.msg = "Selected")
        => LET request == requests[outcome.rid]
           IN  request.Approved = (ToLower(request.Response)
                                       \notin {"cancel", "reject", "deny", "no"})

\* C14: a free-text reply is recorded with approved = true exactly when its
\* text, in lower case, is yes, approve, ok, confirm or accept.
FreeTextApproval ==
    (outcome.op = "reply" /\ outcome.msg = "Response recorded successfully")
        => LET request == requests[outcome.rid]
           IN  request.Approved = (ToLower(request.Response)
                       \in {"yes", "approve", "ok", "confirm", "accept"})

ActiveSessionsOf(clientID) ==
    {s \in DOMAIN sessions : sessions[s].Active /\ sessions[s].ClientID = clientID}

\* C16: deactivating a session that is already deactivated returns ok and
\* changes no session and no client's GetTelegramID result.
DeactivateTwiceNoOp ==
    \A s \in InactiveSessions :
        LET done == DeactivateSession(sessions, clientToTelegram, s)
        IN  /\ done.err = ""
            /\ done.sessions = sessions
            /\ \A c \in ClientIDs :
                   GetTelegramID(done.clientToTelegram, c)
                       = GetTelegramID(clientToTelegram, c)

\* C17: GetTelegramID fails for a client exactly when the client has no active
\* session, and otherwise returns the chat of one of its active sessions.
ResolveIffActive ==
    \A c \in ClientIDs :
        LET got == GetTelegramID(clientToTelegram, c)
        IN  /\ (got.err # "") <=> (ActiveSessionsOf(c) = {})
            /\ got.err = "" =>
                   \E s \in ActiveSessionsOf(c) : got.telegramID = sessions[s].TelegramID

\* C18: for a client with more than one active session GetTelegramID returns
\* the chat of an active session with the earliest created_at.
ResolveOldest ==
    \A c \in ClientIDs :
        Cardinality(ActiveSessionsOf(c)) > 1 =>
            LET got == GetTelegramID(clientToTelegram, c)
            IN  /\ got.err = ""
                /\ \E s \in ActiveSessionsOf(c) :
                       /\ \A o \in ActiveSessionsOf(c) :
                              sessions[s].CreatedAt <= sessions[o].CreatedAt
                       /\ got.telegramID = sessions[s].TelegramID

DeactivateUnknownNotFound ==
    [][\A s \in SessionIDs \ DOMAIN sessions :
          HITLHandler_DeactivateSession(s)
              => /\ outcome'.code = StatusNotFound
                 /\ sessions' = sessions
                 /\ clientToTelegram' = clientToTelegram
                 /\ requests' = requests]_vars

\* C22: a request id names one request for good: a submission carrying an id
\* that is still pending never replaces the pending entry of the call that
\* waits under it.
PendingEntryKept ==
    [][\A id \in DOMAIN pendingRequests :
          id \in DOMAIN pendingRequests' => pendingRequests'[id] = pendingRequests[id]]_vars

\* C23: GET /hitl/pending answers with exactly the requests whose status is
\* pending, each once, and a request that has reached a terminal status is
\* never pending, and so never listed, again.
PendingListExact ==
    [][/\ HITLHandler_ListPendingRequests =>
             /\ {outcome'.pending[i] : i \in DOMAIN outcome'.pending}
                   = {r \in DOMAIN requests : requests[r].Status = RequestStatusPending}
             /\ \A i, j \in DOMAIN outcome'.pending :
                   outcome'.pending[i] = outcome'.pending[j] => i = j
       /\ \A r \in DOMAIN requests :
             Terminal(r) => requests'[r].Status # RequestStatusPending]_vars

PendingListedBesideTerminal ==
    /\ outcome.op = "pending"
    /\ Len(outcome.pending) = 1
    /\ requests[outcome.pending[1]].Status = RequestStatusPending
    /\ \E r \in DOMAIN requests : Terminal(r)

\* C24: the list GET /hitl/pending answers with is ordered by created_at
\* ascending.
PendingListOrdered ==
    [][HITLHandler_ListPendingRequests =>
          \A i, j \in DOMAIN outcome'.pending :
              i < j => requests[outcome'.pending[i]].CreatedAt
                          <= requests[outcome'.pending[j]].CreatedAt]_vars

\* C25: a poll that runs beside a completion or a cancel answers with the
\* request as it was before or as it is after: a pending status never comes
\* with a response or an approval, and completed=true only with a terminal
\* status.
PollNotTorn ==
    (outcome.op = "poll" /\ outcome.code = StatusOK) =>
        /\ outcome.body.Completed <=> (outcome.body.Status \in TerminalStatuses)
        /\ outcome.body.Status = RequestStatusPending =>
               (outcome.body.Response = "" /\ ~outcome.body.Approved)

\* C26: once a reply for a request id has been accepted for delivery to the
\* waiting agent, every further reply for that id is rejected.
SecondReplyRejected ==
    [][\A r \in RequestIDs :
          (\E k \in DOMAIN calls :
               /\ calls[k].requestID = r
               /\ calls[k].ResponseCh # << >> \/ calls[k].response # NoResponse)
          => ((Router_HandleTelegramResponseSend /\ responder.response.ID = r)
                 => outcome'.msg # "")]_vars

\* The callbacks C27 calls malformed for the stored requests: another form
\* than response:<request_id>:<option_index>, an unknown request, or an index
\* outside 0..len(options)-1.
Malformed(parts) ==
    \/ parts[1] # "response" \/ Len(parts) # 3 \/ Atoi(parts[3]).err # ""
    \/ Atoi(parts[2]).n \notin DOMAIN requests
    \/ Atoi(parts[3]).n \notin 0..(Len(requests[Atoi(parts[2]).n].Options) - 1)

\* C27: a malformed callback is dropped: no request changes and the bot goes
\* on to the next update.
MalformedCallbackDropped ==
    [][\A chat \in TelegramIDs, parts \in CallbackPayloads :
          (Malformed(parts) /\ Bot_handleCallbackData(chat, parts))
              => (requests' = requests /\ bot' = Idle)]_vars

\* C28: poll, list pending, session status and the chat commands /status and
\* /pending leave every session, every client binding and every request as
\* they were.
ReadsArePure ==
    [][(Poll \/ PollRead \/ ListPending \/ Status \/ StatusCommand \/ PendingCommand)
          => (sessions' = sessions /\ clientToTelegram' = clientToTelegram
                 /\ requests' = requests)]_vars

ReadBesideState ==
    /\ outcome.op = "/pending"
    /\ Len(outcome.pending) > 0
    /\ \E s \in DOMAIN sessions : sessions[s].Active
    /\ \E r \in DOMAIN requests : requests[r].Status = RequestStatusCompleted

\* C29: the MCP dispatcher answers an unparseable line with -32700, an unknown
\* method with -32601, and a tools/call with invalid arguments - params that
\* are no object, no tool name, or request_human_input without one of
\* session_id, client_id and message - with -32602.
MCPErrorCodes ==
    [][\A req \in MCPRequests :
          Server_Start(req) =>
              /\ ~req.parsed => outcome'.code = ParseError
              /\ (req.parsed /\ req.method \notin {"initialize", "tools/list", "tools/call"})
                     => outcome'.code = MethodNotFound
              /\ (/\ req.parsed
                  /\ req.method = "tools/call"
                  /\ \/ ~req.params.isMap
                     \/ req.params.name = NoName
                     \/ /\ req.params.name = "request_human_input"
                        /\ ~(RequiredArguments \subseteq req.params.arguments))
                     => outcome'.code = InvalidParams]_vars

\* C30: a tools/call of request_human_input with session_id, client_id and
\* message creates a pending request and answers with its request id.
MCPSubmits ==
    [][\A req \in MCPRequests :
          (/\ req.parsed
           /\ req.method = "tools/call"
           /\ req.params.isMap
           /\ req.params.name = "request_human_input"
           /\ RequiredArguments \subseteq req.params.arguments
           /\ \E s \in DOMAIN sessions : sessions[s].Active
           /\ Server_Start(req))
              => \E r \in DOMAIN requests' \ DOMAIN requests :
                     /\ requests'[r].Status = RequestStatusPending
                     /\ outcome'.rid = r]_vars

\* C31: the in-memory adapter and the SQL adapter, given the same calls,
\* report success or failure alike on every call, hold the same sessions and
\* requests afterwards, and resolve every client to the same chat.
StoresEquivalent ==
    /\ (outcome.msg = "") <=> (sqlite.err = "")
    /\ sqlite.sessions = sessions
    /\ sqlite.requests = requests
    /\ \A c \in ClientIDs :
          LET mem == GetTelegramID(clientToTelegram, c)
              sql == SQLiteStorageAdapter_GetTelegramID(sqlite.sessions, c)
          IN  mem.err = "" <=> sql.err = ""

\* C32: each error kind reaches the HTTP client with its own status code: a
\* duplicate registration and an inactive session 409, the cancel of a
\* request that is already terminal 409, an unknown id 404, a failed
\* Telegram send 502.
ErrorCodesDesignated ==
    [][/\ \A r \in RequestIDs :
            (HITLHandler_CancelRequest(r) /\ r \in DOMAIN requests /\ Terminal(r))
                => outcome'.code = 409
       /\ \A r \in RequestIDs :
            (HITLHandler_CancelRequest(r) /\ r \notin DOMAIN requests)
                => outcome'.code = StatusNotFound
       /\ outcome'.msg = "Failed to register session" => outcome'.code = 409
       /\ outcome'.msg = "Session is not active" => outcome'.code = 409
       /\ outcome'.msg = "Failed to send request to Telegram" => outcome'.code = 502
       /\ outcome'.msg \in {"Session not found", "Request not found"}
            => outcome'.code = StatusNotFound]_vars

\* C33: a request leaves pending for completed only through a reply or a
\* button press that comes from the chat its prompt was sent to.
OnlyAddresseeCompletes ==
    [][\A r \in DOMAIN requests :
          (requests[r].Status = RequestStatusPending
              /\ requests'[r].Status = RequestStatusCompleted)
          => [chat |-> outcome'.chat, rid |-> r] \in sent]_vars

\* C34: every prompt went to the chat bound to the session its request names.
PromptToSessionsHuman ==
    \A p \in sent :
        p.rid \in DOMAIN requests
            => p.chat = sessions[requests[p.rid].SessionID].TelegramID

\* C35: a free-text reply to the prompt of a request is taken as the answer
\* to that request, whatever the agent wrote in the request's message.
ReplyAnswersItsPrompt ==
    [][\A p \in sent : ReplyToPromptOf(p) => outcome'.rid = p.rid]_vars

\* C36: whatever the interleaving with the cleanup loop, HandleTelegramResponse
\* never sends on a response channel the cleanup loop has closed.
NoSendOnClosedChannel ==
    [][Router_HandleTelegramResponseSend => ~calls[responder.call].closed]_vars

\* C37: a RouteHITLRequest that returns without an error returns a response,
\* also when the cleanup loop expired the request while the caller waited,
\* and its pending entry is gone.
RouteReturnsResponseOrError ==
    [][\A k \in 1..MaxCalls :
          Router_Receive(k)
              => /\ calls'[k].response # NoResponse
                 /\ calls[k].requestID \notin DOMAIN pendingRequests']_vars

\* C38: on the stdio transport the k-th line the client reads is the
\* response to its k-th request: every request with an id gets one line,
\* a notification gets none.
KthResponseAnswersKthRequest ==
    \A k \in DOMAIN client.read :
        /\ client.read[k].got.kind # "null"
        /\ client.read[k].got.id = client.read[k].asked

\* C39: until an initialize request has been processed the server answers
\* tools/list and tools/call with InvalidRequest; only initialize makes it
\* initialized, after which it does not answer so, and it stays initialized.
HandshakeGate ==
    [][/\ (MCPServer_HandleStdio /\ ~mcp.initialized
              /\ outcome'.op \in {MethodListTools, MethodCallTool})
          => mcp'.stdout = Append(mcp.stdout,
                                  NewMCPError(outcome'.rid, ErrorCodeInvalidRequest))
       /\ (MCPServer_HandleStdio /\ mcp.initialized
              /\ outcome'.op \in {MethodListTools, MethodCallTool})
          => outcome'.msg # ErrorCodeInvalidRequest
       /\ (~mcp.initialized /\ mcp'.initialized)
          => (MCPServer_HandleStdio /\ outcome'.op = MethodInitialize)
       /\ mcp.initialized => mcp'.initialized]_vars

HandshakeSeen ==
    /\ mcp.initialized
    /\ Len(client.read) = 3
    /\ client.read[1].got = NewMCPError(1, ErrorCodeInvalidRequest)
    /\ client.read[2].got = NewMCPResponse(2)
    /\ client.read[3].got = NewMCPResponse(3)
    /\ outcome.op = MethodListTools

\* C40: a Close that has begun returns.
CloseTerminates == client.closing ~> (client.at = "closed")

====
